---- MODULE Spec2Model ----
(***************************************************************************)
(* The stopwatch component of src/src/app/app.component.ts.  The file      *)
(* holds two versions of AppComponent:                                     *)
(*   "BS"  lines 19-101, running state in a BehaviorSubject, the tick      *)
(*         source switched by switchMap and torn down by takeUntil;        *)
(*   "DP"  lines 117-194, running state in a plain boolean, the tick       *)
(*         source an interval guarded by takeWhile, time kept as a         *)
(*         DatePipe-formatted string.                                      *)
(* Time is virtual: it advances in quanta of GCD(1000 ms, 300 ms), a timer *)
(* callback runs at the instant it is due, before time moves on and before *)
(* any call made at that same instant.                                     *)
(***************************************************************************)
EXTENDS Integers, Sequences, FiniteSets, TLC

VARIABLES variant, phase, running, elapsedSeconds, time, intervals,
          debounce, clicks, last, pre, nToggles, runQ,
          quiet, sinceTick, arrivedRunning

vars == <<variant, phase, running, elapsedSeconds, time, intervals,
          debounce, clicks, last, pre, nToggles, runQ,
          quiet, sinceTick, arrivedRunning>>

(* ------------------------------ bounds -------------------------------- *)
MaxElapsed   == 3     \* ticks are counted up to this many seconds
MaxIntervals == 2     \* live interval(1000) timers at one time
MaxClicks    == 3     \* clicks buffered in one group
MaxToggles   == 4     \* length of the toggle-only histories that are counted

(* -------------------------- program constants ------------------------- *)
IntervalMs   == 1000  \* interval(1000)
DebounceMs   == 300   \* debounceTime(300)
DoubleClicks == 2     \* clicks.length >= 2

RECURSIVE GCD(_, _)
GCD(a, b) == IF b = 0 THEN a ELSE GCD(b, a % b)

QuantumMs == GCD(IntervalMs, DebounceMs)
Interval  == IntervalMs \div QuantumMs
Debounce  == DebounceMs \div QuantumMs

Untracked == 0 - 1

\* the counter values a long run is picked up at: a fresh component and two
\* seconds before 24 hours
LongRuns == {0, 24 * 60 * 60 - 2}

\* ticks are counted up to MaxElapsed seconds past the value picked up at
Cap(e) ==
    IF \E s \in LongRuns : s <= e /\ e <= s + MaxElapsed
    THEN (CHOOSE s \in LongRuns : s <= e /\ e <= s + MaxElapsed) + MaxElapsed
    ELSE e

(* ------------------------------ DatePipe ------------------------------ *)
Digit(d) == <<"0", "1", "2", "3", "4", "5", "6", "7", "8", "9">>[d + 1]

Pad2(n) == Digit((n \div 10) % 10) \o Digit(n % 10)

\* a variation: the hours are not taken modulo 24
DatePipeTransform_NoDayWrap(ms) ==
    Pad2(ms \div 3600000) \o ":" \o
    Pad2((ms \div 60000) % 60) \o ":" \o
    Pad2((ms \div 1000) % 60)

\* datePipe.transform(ms, 'HH:mm:ss', 'UTC') || '00:00:00'
DatePipeTransform(ms) ==
    Pad2((ms \div 3600000) % 24) \o ":" \o
    Pad2((ms \div 60000) % 60) \o ":" \o
    Pad2((ms \div 1000) % 60)

NoTime == "n/a"       \* the BS version has no time field

(* ------------------------------- timers ------------------------------- *)
\* a variation: the interval is created with the debounce period
NewInterval_DebouncePeriod ==
    [rem |-> Debounce, stale |-> FALSE, age |-> 0]

\* an interval(1000) subscription: quanta left to its next emission; stale
\* records that the timer was stopped at least once since it was created,
\* age the quanta since it was created or last emitted
NewInterval == [rem |-> Interval, stale |-> FALSE, age |-> 0]

\* the interval has emitted and runs towards its next emission
Emitted(t) == [t EXCEPT !.rem = Interval, !.age = 0]

Min(a, b) == IF a <= b THEN a ELSE b

MarkStale(s) == [i \in 1..Len(s) |-> [s[i] EXCEPT !.stale = TRUE]]

RemoveAt(s, i) == SubSeq(s, 1, i - 1) \o SubSeq(s, i + 1, Len(s))

Due == \/ \E i \in 1..Len(intervals) : intervals[i].rem = 0
       \/ debounce = <<0>>

Snapshot == [running |-> running, elapsedSeconds |-> elapsedSeconds,
             time |-> time, clicks |-> clicks, stale |-> FALSE,
             destroyed |-> phase = "destroyed",
             age |-> 0, sinceTick |-> 0,
             signals |-> 0, quiet |-> 0, arrivedRunning |-> FALSE]

\* what the click group and its clock were when the group closed
CloseSnapshot(signals) ==
    [Snapshot EXCEPT !.signals = signals, !.quiet = quiet,
                     !.arrivedRunning = arrivedRunning]

\* what the emitting interval and the clocks were when a tick ran
TickSnapshot(t) ==
    [Snapshot EXCEPT !.stale = t.stale, !.age = t.age,
                     !.sinceTick = sinceTick]

TypeOK ==
    /\ variant \in {"BS", "DP"}
    /\ phase \in {"constructed", "inited", "destroyed"}
    /\ running \in BOOLEAN
    /\ \E s \in LongRuns : elapsedSeconds \in s..(s + MaxElapsed)
    /\ time \in STRING
    /\ Len(intervals) <= MaxIntervals
    /\ \A i \in 1..Len(intervals) : intervals[i].rem \in 0..Interval
    /\ debounce \in {<<>>} \cup {<<d>> : d \in 0..Debounce}
    /\ clicks \in 0..MaxClicks
    /\ nToggles \in {Untracked} \cup 0..MaxToggles
    /\ runQ \in {Untracked} \cup 0..((MaxElapsed + 1) * Interval)
    /\ quiet \in 0..Debounce
    /\ sinceTick \in 0..Interval
    /\ arrivedRunning \in BOOLEAN

(* -------------------------------- Init -------------------------------- *)
\* BS: field initialisers, lines 21-32; ngOnInit has not run yet.
\* DP: field initialisers and the constructor, lines 118-144, which already
\*     subscribes the wait handler.
Init ==
    /\ variant \in {"BS", "DP"}
    /\ phase = IF variant = "BS" THEN "constructed" ELSE "inited"
    /\ running = FALSE
    /\ elapsedSeconds = 0
    /\ time = IF variant = "BS" THEN NoTime ELSE "00:00:00"
    /\ intervals = <<>>
    /\ debounce = <<>>
    /\ clicks = 0
    /\ last = "new"
    /\ quiet = Debounce
    /\ sinceTick = Interval
    /\ arrivedRunning = FALSE
    /\ pre = Snapshot
    /\ nToggles = 0
    /\ runQ = Untracked

\* the view calls the component only once it is initialised; the methods stay
\* callable on the instance after ngOnDestroy
Callable == phase # "constructed" /\ ~Due

Op(name) == last' = name /\ pre' = Snapshot

\* the counted histories: nToggles counts the calls of a history made of
\* toggle() calls only; runQ is the time since the single toggle() of a
\* history that is exactly "initialise, toggle(), wait"
CountToggle ==
    /\ nToggles' = IF nToggles # Untracked /\ nToggles < MaxToggles
                   THEN nToggles + 1 ELSE Untracked
    /\ runQ' = IF nToggles = 0 /\ phase = "inited" THEN 0 ELSE Untracked

Uncount == nToggles' = Untracked /\ runQ' = Untracked

(* --------------------------- click grouping --------------------------- *)
\* a variation: the clicks are handed over in overlapping pairs
BufferEmits_Pairs(n) == [i \in 1..(n - 1) |-> 2]

\* buffer(closingNotifier): when the notifier emits, the n clicks collected
\* since the last emission go out as one array
BufferEmits(n) == <<n>>

(* ------------------------- BehaviorSubject version -------------------- *)
\* a variation: the inner intervals are merged, none is dropped
SwitchMap_Merge(isRunning) ==
    IF phase = "inited" /\ isRunning
    THEN Append(intervals, NewInterval)
    ELSE intervals

\* switchMap((isRunning) => (isRunning ? interval(1000) : [])) under
\* takeUntil(unsubscribe$): a new outer value drops the inner interval and,
\* when true, starts a fresh one; nothing is subscribed outside "inited"
SwitchMap(isRunning) ==
    IF phase = "inited"
    THEN IF isRunning THEN <<NewInterval>> ELSE <<>>
    ELSE intervals

\* runningState$.next(value)
RunningStateNext(value) ==
    /\ running' = value
    /\ intervals' = SwitchMap(value)

\* a variation: the filter lets a single click through
setupWaitHandler_AnyClick(n, isRunning) == n >= 1 /\ isRunning

\* filter((clicks) => clicks.length >= 2 && this.runningState$.value)
setupWaitHandler(n, isRunning) == n >= DoubleClicks /\ isRunning

ngOnInit ==
    /\ variant = "BS" /\ phase = "constructed"
    /\ phase' = "inited"
    /\ intervals' = IF running THEN <<NewInterval>> ELSE <<>>
    /\ Op("ngOnInit")
    /\ UNCHANGED <<variant, running, elapsedSeconds, time, debounce, clicks,
                   nToggles, runQ>>
    /\ UNCHANGED <<quiet, sinceTick, arrivedRunning>>

\* a variation: the pipeline is not piped through takeUntil
ngOnDestroy_NoTakeUntil ==
    /\ variant = "BS" /\ phase = "inited" /\ ~Due
    /\ phase' = "destroyed"
    /\ Op("ngOnDestroy")
    /\ runQ' = Untracked
    /\ UNCHANGED <<variant, running, elapsedSeconds, time, intervals, debounce,
                   clicks, nToggles>>
    /\ UNCHANGED <<quiet, sinceTick, arrivedRunning>>

\* unsubscribe$.next(): takeUntil ends the runningState$ pipeline and with it
\* the inner interval; the wait handler is not piped through takeUntil
ngOnDestroy ==
    /\ variant = "BS" /\ phase = "inited" /\ ~Due
    /\ phase' = "destroyed"
    /\ intervals' = <<>>
    /\ Op("ngOnDestroy")
    /\ runQ' = Untracked
    /\ UNCHANGED <<variant, running, elapsedSeconds, time, debounce, clicks,
                   nToggles>>
    /\ UNCHANGED <<quiet, sinceTick, arrivedRunning>>

\* a variation: toggle() always emits true
toggle_BS_AlwaysStarts ==
    /\ variant = "BS" /\ Callable
    /\ RunningStateNext(TRUE)
    /\ Op("toggle") /\ CountToggle
    /\ UNCHANGED <<variant, phase, elapsedSeconds, time, debounce, clicks>>
    /\ UNCHANGED <<quiet, sinceTick, arrivedRunning>>

toggle_BS ==
    /\ variant = "BS" /\ Callable
    /\ RunningStateNext(~running)
    /\ Op("toggle") /\ CountToggle
    /\ UNCHANGED <<variant, phase, elapsedSeconds, time, debounce, clicks>>
    /\ UNCHANGED <<quiet, sinceTick, arrivedRunning>>

reset_BS ==
    /\ variant = "BS" /\ Callable
    /\ RunningStateNext(FALSE)
    /\ elapsedSeconds' = 0
    /\ Op("reset") /\ Uncount
    /\ UNCHANGED <<variant, phase, time, debounce, clicks>>
    /\ UNCHANGED <<quiet, sinceTick, arrivedRunning>>

\* the subscriber of the switchMap pipeline: this.elapsedSeconds++
Tick_BS ==
    /\ variant = "BS"
    /\ \E i \in 1..Len(intervals) :
         /\ intervals[i].rem = 0
         /\ elapsedSeconds' = elapsedSeconds + 1
         /\ intervals' = [intervals EXCEPT ![i] = Emitted(@)]
         /\ last' = "tick"
         /\ pre' = TickSnapshot(intervals[i])
    /\ UNCHANGED <<variant, phase, running, time, debounce, clicks,
                   nToggles, runQ>>
    /\ sinceTick' = 0
    /\ UNCHANGED <<quiet, arrivedRunning>>

\* the filter's test of the group size alone: the double-click signal
IsDouble_BS(n) == setupWaitHandler(n, TRUE)

\* the emitted groups run through filter and subscriber one after the other;
\* the filter reads runningState$.value as the toggle() before it left it
RECURSIVE Deliver_BS(_, _, _)
Deliver_BS(groups, isRunning, calls) ==
    IF groups = <<>>
    THEN [running |-> isRunning, calls |-> calls]
    ELSE IF setupWaitHandler(Head(groups), isRunning)
         THEN Deliver_BS(Tail(groups), ~isRunning, calls + 1)
         ELSE Deliver_BS(Tail(groups), isRunning, calls)

\* debounceTime(300) emits: buffer hands over the clicks collected since the
\* last emission and starts an empty buffer; a group that passes the filter
\* calls toggle()
GroupClose_BS ==
    /\ variant = "BS" /\ debounce = <<0>>
    /\ debounce' = <<>>
    /\ clicks' = 0
    /\ LET d == Deliver_BS(BufferEmits(clicks), running, 0)
       IN  IF d.calls > 0
           THEN RunningStateNext(d.running)
           ELSE UNCHANGED <<running, intervals>>
    /\ last' = "groupClose"
    /\ pre' = CloseSnapshot(Len(SelectSeq(BufferEmits(clicks), IsDouble_BS)))
    /\ Uncount
    /\ arrivedRunning' = FALSE
    /\ UNCHANGED <<variant, phase, elapsedSeconds, time, quiet, sinceTick>>

(* ----------------------------- DatePipe version ----------------------- *)
\* a variation: the filter asks for more than two clicks
handleWaitClicks_MoreThanTwo(n) == n > DoubleClicks

\* filter((clicks) => clicks.length >= 2)
handleWaitClicks(n) == n >= DoubleClicks

\* a variation: the double-click leaves the flag as it is
toggleWaitState_Keep(isRunning) == isRunning

\* a variation: the double-click flips the flag
toggleWaitState_Flip(isRunning) == ~isRunning

\* isRunning = false
toggleWaitState(isRunning) == FALSE

\* a variation: starting the timer also zeroes the counter
toggle_DP_ZeroOnStart ==
    /\ variant = "DP" /\ Callable
    /\ running' = ~running
    /\ IF ~running
       THEN /\ Len(intervals) < MaxIntervals
            /\ intervals' = Append(intervals, NewInterval)
            /\ elapsedSeconds' = 0
       ELSE /\ intervals' = MarkStale(intervals)
            /\ UNCHANGED elapsedSeconds
    /\ Op("toggle") /\ CountToggle
    /\ UNCHANGED <<variant, phase, time, debounce, clicks>>
    /\ UNCHANGED <<quiet, sinceTick, arrivedRunning>>

toggle_DP ==
    /\ variant = "DP" /\ Callable
    /\ running' = ~running
    /\ IF ~running
       THEN /\ Len(intervals) < MaxIntervals
            /\ intervals' = Append(intervals, NewInterval)
       ELSE intervals' = MarkStale(intervals)
    /\ Op("toggle") /\ CountToggle
    /\ UNCHANGED <<variant, phase, elapsedSeconds, time, debounce, clicks>>
    /\ UNCHANGED <<quiet, sinceTick, arrivedRunning>>

\* a variation: reset() leaves the running flag alone
reset_DP_KeepsRunning ==
    /\ variant = "DP" /\ Callable
    /\ elapsedSeconds' = 0
    /\ time' = "00:00:00"
    /\ Op("reset") /\ Uncount
    /\ UNCHANGED <<variant, phase, running, intervals, debounce, clicks>>
    /\ UNCHANGED <<quiet, sinceTick, arrivedRunning>>

reset_DP ==
    /\ variant = "DP" /\ Callable
    /\ running' = FALSE
    /\ elapsedSeconds' = 0
    /\ time' = "00:00:00"
    /\ intervals' = MarkStale(intervals)
    /\ Op("reset") /\ Uncount
    /\ UNCHANGED <<variant, phase, debounce, clicks>>
    /\ UNCHANGED <<quiet, sinceTick, arrivedRunning>>

\* a variation: the interval is subscribed without takeWhile
Tick_DP_NoTakeWhile ==
    /\ variant = "DP"
    /\ \E i \in 1..Len(intervals) :
         /\ intervals[i].rem = 0
         /\ pre' = TickSnapshot(intervals[i])
         /\ elapsedSeconds' = Min(elapsedSeconds + 1, Cap(elapsedSeconds))
         /\ time' = DatePipeTransform(elapsedSeconds' * IntervalMs)
         /\ intervals' = [intervals EXCEPT ![i] = Emitted(@)]
         /\ last' = "tick"
    /\ UNCHANGED <<quiet, sinceTick, arrivedRunning>>
    /\ UNCHANGED <<variant, phase, running, debounce, clicks, nToggles, runQ>>

\* interval(1000).pipe(takeWhile(() => this.isRunning)) emits: the predicate
\* reads the flag as it is now; true delivers the tick, false completes the
\* subscription
Tick_DP ==
    /\ variant = "DP"
    /\ \E i \in 1..Len(intervals) :
         /\ intervals[i].rem = 0
         /\ pre' = TickSnapshot(intervals[i])
         /\ IF running
            THEN /\ elapsedSeconds' = elapsedSeconds + 1
                 /\ time' = DatePipeTransform((elapsedSeconds + 1) * IntervalMs)
                 /\ intervals' = [intervals EXCEPT ![i] = Emitted(@)]
                 /\ last' = "tick"
            ELSE /\ intervals' = RemoveAt(intervals, i)
                 /\ last' = "takeWhileEnd"
                 /\ UNCHANGED <<elapsedSeconds, time>>
    /\ UNCHANGED <<variant, phase, running, debounce, clicks, nToggles, runQ>>
    /\ UNCHANGED <<quiet, sinceTick, arrivedRunning>>

\* the subscriber runs once for every emitted group that passes the filter
RECURSIVE Deliver_DP(_, _)
Deliver_DP(calls, isRunning) ==
    IF calls = 0 THEN isRunning
    ELSE Deliver_DP(calls - 1, toggleWaitState(isRunning))

GroupClose_DP ==
    /\ variant = "DP" /\ debounce = <<0>>
    /\ debounce' = <<>>
    /\ clicks' = 0
    /\ LET calls == Len(SelectSeq(BufferEmits(clicks), handleWaitClicks))
       IN  /\ IF calls > 0
              THEN /\ running' = Deliver_DP(calls, running)
                   /\ intervals' = MarkStale(intervals)
              ELSE UNCHANGED <<running, intervals>>
           /\ pre' = CloseSnapshot(calls)
    /\ last' = "groupClose"
    /\ Uncount
    /\ arrivedRunning' = FALSE
    /\ UNCHANGED <<variant, phase, elapsedSeconds, time, quiet, sinceTick>>

(* ------------------------------ both versions ------------------------- *)
\* waitClick$.next() / waitClickSubject.next(): buffer stores the click, then
\* debounceTime restarts its 300 ms timer
waitClick ==
    /\ Callable
    /\ clicks < MaxClicks
    /\ clicks' = clicks + 1
    /\ debounce' = <<Debounce>>
    /\ Op("waitClick") /\ Uncount
    /\ UNCHANGED <<variant, phase, running, elapsedSeconds, time, intervals>>
    /\ quiet' = 0
    /\ arrivedRunning' = (arrivedRunning \/ running)
    /\ UNCHANGED sinceTick

\* one quantum of time passes; no callback is overdue
Advance ==
    /\ ~Due
    /\ intervals # <<>> \/ debounce # <<>>
         \/ (variant = "BS" /\ sinceTick < Interval)
    /\ running =>
         elapsedSeconds +
           Cardinality({i \in 1..Len(intervals) : intervals[i].rem = 1})
             <= Cap(elapsedSeconds)
    /\ intervals' = [i \in 1..Len(intervals) |->
                       [intervals[i] EXCEPT !.rem = @ - 1,
                                            !.age = Min(@ + 1, Interval)]]
    /\ quiet' = Min(quiet + 1, Debounce)
    /\ sinceTick' = IF variant = "BS" THEN Min(sinceTick + 1, Interval)
                     ELSE sinceTick
    /\ UNCHANGED arrivedRunning
    /\ debounce' = IF debounce = <<>> THEN <<>> ELSE <<debounce[1] - 1>>
    /\ runQ' = IF runQ = Untracked THEN Untracked ELSE runQ + 1
    /\ UNCHANGED <<variant, phase, running, elapsedSeconds, time, clicks,
                   last, pre, nToggles>>

Next ==
    \/ ngOnInit
    \/ ngOnDestroy
    \/ toggle_BS
    \/ reset_BS
    \/ Tick_BS
    \/ GroupClose_BS
    \/ toggle_DP
    \/ reset_DP
    \/ Tick_DP
    \/ GroupClose_DP
    \/ waitClick
    \/ Advance

Spec == Init /\ [][Next]_vars

\* The DatePipe version picked up after a long run: the stopwatch ran up to
\* one of the LongRuns values, was stopped, and its interval has ended.
InitLongRun ==
    /\ variant = "DP"
    /\ phase = "inited"
    /\ running = FALSE
    /\ elapsedSeconds \in LongRuns
    /\ time = DatePipeTransform(elapsedSeconds * IntervalMs)
    /\ intervals = <<>>
    /\ debounce = <<>>
    /\ clicks = 0
    /\ last = "new"
    /\ quiet = Debounce
    /\ sinceTick = Interval
    /\ arrivedRunning = FALSE
    /\ pre = Snapshot
    /\ nToggles = Untracked
    /\ runQ = Untracked

NextDP ==
    \/ toggle_DP
    \/ reset_DP
    \/ Tick_DP
    \/ GroupClose_DP
    \/ waitClick
    \/ Advance

SpecLongRun == InitLongRun /\ [][NextDP]_vars

(* ============================== properties ============================ *)
\* last names the operation that ran last and pre holds the fields as they
\* were when it started; the passage of time changes neither.

\* C1: right after reset() returns, from any prior state (Stopped or Running,
\* any elapsed value, any pending click group), elapsedSeconds is 0 and the
\* running flag is false, and in the DP version time is "00:00:00".
C1_ResetYieldsZero ==
    last = "reset" =>
        /\ elapsedSeconds = 0
        /\ running = FALSE
        /\ variant = "DP" => time = "00:00:00"

C1_Witness ==
    /\ last = "reset"
    /\ pre.running /\ pre.elapsedSeconds > 0 /\ pre.clicks > 0

\* C2: starting from Stopped, after a history of N toggle() calls and nothing
\* else but time and ticks, the running flag is true exactly when N is odd.
C2_ToggleParity ==
    nToggles # Untracked => (running <=> nToggles % 2 = 1)

C2_Witness ==
    /\ nToggles >= 3 /\ running /\ elapsedSeconds >= 1

\* C3: from a fresh, initialised component, one toggle() followed by k whole
\* seconds and no other operation gives elapsedSeconds = k, and in the DP
\* version time is the zero-padded HH:mm:ss of k seconds.
HHmmss(k) ==
    Pad2(k \div 3600) \o ":" \o Pad2((k \div 60) % 60) \o ":" \o Pad2(k % 60)

C3_ElapsedIsWholeSeconds ==
    (runQ # Untracked /\ ~Due) =>
        /\ elapsedSeconds = runQ \div Interval
        /\ variant = "DP" => time = HHmmss(runQ \div Interval)

C3_Witness ==
    /\ variant = "DP" /\ ~Due
    /\ runQ = 2 * Interval /\ time = "00:00:02"

\* C4: in the DP version, once the timer has been stopped no tick of the
\* superseded running period increments elapsedSeconds afterwards, also when
\* toggle() restarts the timer before that period's next tick is due.
C4_NoTickFromSupersededPeriod ==
    ~(variant = "DP" /\ last = "tick" /\ pre.stale)

\* C5: when a group of two or more clicks closes on a Running timer, the
\* running flag becomes false and the pause changes neither elapsedSeconds
\* nor the displayed time.
C5_DoubleClickPauses ==
    (last = "groupClose" /\ pre.clicks >= DoubleClicks /\ pre.running) =>
        /\ running = FALSE
        /\ elapsedSeconds = pre.elapsedSeconds
        /\ time = pre.time

C5_Witness ==
    /\ last = "groupClose" /\ pre.clicks = DoubleClicks /\ pre.running
    /\ ~running /\ elapsedSeconds >= 1

\* C6: a click group that closes with exactly one click never changes the
\* running flag; a click that arrives 300 ms or more after the previous one
\* finds the buffer empty and so opens a group of its own.
C6_SingleClickKeepsRunning ==
    /\ (last = "groupClose" /\ pre.clicks = 1) => running = pre.running
    /\ clicks = 0 <=> debounce = <<>>

C6_Witness ==
    /\ last = "groupClose" /\ pre.clicks = 1 /\ pre.running /\ running

\* C7: a click-group close that finds the timer Stopped leaves the running
\* flag, elapsedSeconds and the displayed time unchanged: the double-click
\* never starts the timer.
C7_DoubleClickNeverStarts ==
    (last = "groupClose" /\ ~pre.running) =>
        /\ running = FALSE
        /\ elapsedSeconds = pre.elapsedSeconds
        /\ time = pre.time

C7_Witness ==
    /\ last = "groupClose" /\ pre.clicks >= DoubleClicks /\ ~pre.running
    /\ ~running

\* C8: in the BS version no tick is delivered after ngOnDestroy(): no interval
\* is live once destroyed, and elapsedSeconds is not changed by anything that
\* runs after teardown (toggle() included) other than an explicit reset().
C8_NoTickAfterDestroy ==
    /\ phase = "destroyed" => intervals = <<>>
    /\ pre.destroyed =>
          /\ last # "tick"
          /\ last # "reset" => elapsedSeconds = pre.elapsedSeconds

C8_Witness ==
    /\ pre.destroyed /\ last = "toggle" /\ running /\ elapsedSeconds >= 1

\* C9: in the BS version the click-group evaluation does not change the
\* running flag once the component has been destroyed.
C9_NoPauseAfterDestroy ==
    (last = "groupClose" /\ pre.destroyed) => running = pre.running

\* C10: elapsedSeconds changes only by a tick (+1) and by reset() (to 0);
\* toggle(), waitClick(), the click-group close, the end of a takeWhile
\* interval, ngOnInit() and ngOnDestroy() leave it alone, and it is never
\* negative.
C10_ElapsedFrame ==
    /\ elapsedSeconds \in Nat
    /\ last = "tick" => elapsedSeconds = pre.elapsedSeconds + 1
    /\ last = "reset" => elapsedSeconds = 0
    /\ last \notin {"tick", "reset"} => elapsedSeconds = pre.elapsedSeconds

C10_Witness ==
    /\ last \in {"toggle", "waitClick", "groupClose", "ngOnDestroy"}
    /\ elapsedSeconds >= 2 /\ pre.elapsedSeconds = elapsedSeconds

\* C11: in the DP version the displayed time is, in every reachable state,
\* the zero-padded HH:mm:ss of elapsedSeconds modulo 86400 (back to
\* "00:00:00" at 24 hours); only a tick and reset() change time.
C11_TimeIsClockOfElapsed ==
    /\ time = HHmmss(elapsedSeconds % (24 * 60 * 60))
    /\ last \notin {"tick", "reset"} => time = pre.time

C11_Witness ==
    /\ last = "tick" /\ elapsedSeconds = 24 * 60 * 60 /\ time = "00:00:00"
    /\ pre.time = "23:59:59"

\* C12: in every reachable state of either version the running flag is true
\* only if a periodic tick source is subscribed, also after ngOnDestroy().
C12_RunningOnlyWhileSubscribed ==
    running => intervals # <<>>

\* C13: a click group closes exactly when 300 ms have passed with no new
\* click since its last click; a closed group of two or more clicks gives
\* exactly one double-click signal and a single click none; every click is
\* added to the buffer and the buffer is empty after every close.
C13_GroupsCloseOnQuiet ==
    /\ last = "groupClose" =>
          /\ pre.quiet = Debounce
          /\ pre.clicks >= 1
          /\ pre.signals = IF pre.clicks >= DoubleClicks THEN 1 ELSE 0
          /\ clicks = 0
    /\ last = "waitClick" => clicks = pre.clicks + 1
    /\ (clicks > 0 /\ debounce # <<0>>) => quiet < Debounce

C13_Witness ==
    /\ last = "groupClose" /\ pre.clicks = 3 /\ pre.signals = 1
    /\ pre.quiet = Debounce

\* C14: in the BS version at most one interval is live; every tick comes a
\* full second after its interval was started or last emitted, and a full
\* second or more after the previous increment of elapsedSeconds.
C14_OneIntervalAtATime ==
    variant = "BS" =>
        /\ Len(intervals) <= 1
        /\ last = "tick" => (pre.age = Interval /\ pre.sinceTick = Interval)

\* toggle() has restarted the timer less than a second after the last tick
C14_Witness ==
    /\ variant = "BS" /\ last = "toggle" /\ running /\ elapsedSeconds >= 1
    /\ intervals # <<>>
    /\ intervals[1].age > 0
    /\ intervals[1].age < sinceTick /\ sinceTick < Interval

\* C15: elapsedSeconds is incremented only while the running flag is true;
\* an operation that starts on a Stopped timer never raises it, so after
\* reset() it stays 0 until the timer is started again.
C15_TicksOnlyWhileRunning ==
    /\ last = "tick" => (pre.running /\ running)
    /\ ~pre.running => elapsedSeconds <= pre.elapsedSeconds
    /\ (~pre.running /\ last # "reset") => elapsedSeconds = pre.elapsedSeconds

C15_Witness ==
    /\ last = "takeWhileEnd" /\ ~running /\ elapsedSeconds >= 1
    /\ intervals = <<>>

\* C16 as stated: a group of two or more clicks that all arrived while the
\* timer was Stopped does not change the running flag when it closes.
C16_PauseOnlyIfClickedWhileRunning ==
    (last = "groupClose" /\ pre.clicks >= DoubleClicks /\ ~pre.arrivedRunning)
        => running = pre.running

\* C16 as amended: the pause is decided when the group closes; the timer is
\* Running after a close exactly when it was Running at the close and the
\* group held fewer than two clicks, whatever the flag was when the clicks
\* arrived.
C16_PauseDecidedAtClose ==
    last = "groupClose" =>
        (running <=> (pre.running /\ pre.clicks < DoubleClicks))

C16_Witness ==
    /\ last = "groupClose" /\ pre.clicks >= DoubleClicks
    /\ ~pre.arrivedRunning /\ pre.running /\ ~running

====
